---- MODULE Spec2Model ----
(***************************************************************************)
(* Model of arceos/exercises/simple_hv: the launch sequence of main, the   *)
(* run loop and the vmexit dispatcher (src/arceos/exercises/simple_hv/     *)
(* src/main.rs), specification Spec; of the EarlyAllocator of              *)
(* arceos/modules/bump_allocator, specifications SpecAlloc and             *)
(* SpecAllocMisuse; and of the HashMap of arceos/ulib/axstd, specification *)
(* SpecMap.  Each specification moves the variables of its own component   *)
(* and leaves the other components untouched.                              *)
(*                                                                         *)
(* A usize is a 64-bit word, kept as four 16-bit limbs, least significant  *)
(* first: <<l0, l1, l2, l3>> stands for l0 + l1*2^16 + l2*2^32 + l3*2^48.  *)
(***************************************************************************)
EXTENDS Integers, Sequences, FiniteSets, TLC

\* ------------------------------------------------------------------ bounds
\* The run loop is followed for at most MaxSwitches calls of _run_guest.
MaxSwitches == 2

\* EarlyAllocator: the region given to init is MemPages pages long and at
\* most MaxLive byte allocations are live at a time.
MemPages == 3
MaxLive == 2

\* ------------------------------------------------------------- usize words
Limb == 2 ^ 16

W(l0) == <<l0, 0, 0, 0>>

Pow2(n) == IF n = 0 THEN 1 ELSE 2 ^ n

Bit(x, b) == (x \div Pow2(b)) % 2

\* bit b (0..63) of the word w
WBit(w, b) == Bit(w[(b \div 16) + 1], b % 16)

\* the word w with bit b set
WSetBit(w, b) ==
    IF WBit(w, b) = 1 THEN w
    ELSE [w EXCEPT ![(b \div 16) + 1] = @ + Pow2(b % 16)]

\* w + k on usize for 0 <= k < 2^16, wrapping at 2^64
WAdd(w, k) ==
    LET s1 == w[1] + k
        s2 == w[2] + (s1 \div Limb)
        s3 == w[3] + (s2 \div Limb)
        s4 == w[4] + (s3 \div Limb)
    IN  <<s1 % Limb, s2 % Limb, s3 % Limb, s4 % Limb>>

\* w >> 12
WShr12(w) ==
    <<(w[1] \div 4096) + (w[2] % 4096) * 16,
      (w[2] \div 4096) + (w[3] % 4096) * 16,
      (w[3] \div 4096) + (w[4] % 4096) * 16,
      w[4] \div 4096>>

PAGE_SIZE_4K == 4096

\* base address of the 4K page that holds the address w
PageOf(w) == [w EXCEPT ![1] = @ - (@ % PAGE_SIZE_4K)]

\* ------------------------------------------------------ program constants
\* 0x8020_0000
VM_ENTRY == <<0, 32800, 0, 0>>

\* the magic codes of the shutdown call: 0x6688 and 0x1234
SHUTDOWN_A0 == W(26248)
SHUTDOWN_A1 == W(4660)

\* positions of a0, a1, a6, a7 in a_regs()
A0 == 1
A1 == 2
A6 == 7
A7 == 8

\* hstatus.SPV, hstatus.SPVP and sstatus.SPP
HSTATUS_SPV == 7
HSTATUS_SPVP == 8
SSTATUS_SPP == 8

\* hgatp.MODE = Sv39x4
HGATP_MODE == 8

RWX == {"READ", "WRITE", "EXECUTE"}

\* --------------------------------------------------- hypervisor-call codec
\* SBI system-reset extension "SRST" (0x5352_5354) and its reset function
EXT_RESET == <<21332, 21330, 0, 0>>
FID_RESET == W(0)

\* SbiMessage::from_regs(a_regs).  The extension id is in a7 and the
\* function id in a6; a0 and a1 carry the payload.  An unrecognised
\* extension decodes to Unsupported, a recognised extension with an unknown
\* function is a decode error.
from_regs(a_regs) ==
    IF a_regs[A7] = EXT_RESET
    THEN IF a_regs[A6] = FID_RESET
         THEN [ok |-> TRUE, tag |-> "Reset",
               code0 |-> a_regs[A0], code1 |-> a_regs[A1]]
         ELSE [ok |-> FALSE, tag |-> "Err",
               code0 |-> W(0), code1 |-> W(0)]
    ELSE [ok |-> TRUE, tag |-> "Unsupported",
          code0 |-> W(0), code1 |-> W(0)]

\* ------------------------------------------------------------ address space
\* AddrSpace::handle_page_fault(vaddr, flags): the call either establishes
\* a mapping of the page that holds vaddr with the requested access flags,
\* or it fails when the address cannot be mapped.  A failing call either
\* returns to its caller with the failure as its value (ok = FALSE) or
\* panics and does not return.  mappable and aborts are what the address
\* space decides for this call; aborts matters only when mappable is FALSE.
handle_page_fault(uspace, vaddr, flags, mappable, aborts) ==
    IF mappable
    THEN [ok |-> TRUE, panic |-> FALSE,
          uspace |-> [uspace EXCEPT
                        !.mapped = @ \cup {<<PageOf(vaddr), flags>>},
                        !.repairs = Append(@, vaddr)]]
    ELSE [ok |-> FALSE, panic |-> aborts,
          uspace |-> [uspace EXCEPT !.repairs = Append(@, vaddr)]]

\* --------------------------------------------------------- vmexit_handler
\* What one call of vmexit_handler produces: the value it returns ("true",
\* "false") or "panic" with the panic message, and the guest context and
\* address space it leaves behind.
Outcome(r, msg, c, u) == [ret |-> r, panic |-> msg, ctx |-> c, uspace |-> u]

\* mutant of ResetArm: the two assert_eq! are dropped
ResetArm_NoAsserts(ctx, uspace) == Outcome("true", "", ctx, uspace)

\* mutant of ResetArm: only a0 is compared with its magic value
ResetArm_A1Unchecked(ctx, uspace) ==
    IF ctx.guest_regs.gprs[A0] # SHUTDOWN_A0
    THEN Outcome("panic", "assert_eq a0", ctx, uspace)
    ELSE Outcome("true", "", ctx, uspace)

\* main.rs 96-104: SbiMessage::Reset(_)
ResetArm(ctx, uspace) ==
    LET a0 == ctx.guest_regs.gprs[A0]
        a1 == ctx.guest_regs.gprs[A1]
    IN  IF a0 # SHUTDOWN_A0
        THEN Outcome("panic", "assert_eq a0", ctx, uspace)
        ELSE IF a1 # SHUTDOWN_A1
        THEN Outcome("panic", "assert_eq a1", ctx, uspace)
        ELSE Outcome("true", "", ctx, uspace)

\* mutant of EnvCallArm: a call that is not the reset call is skipped
EnvCallArm_IgnoresOthers(ctx, uspace) ==
    LET sbi_msg == from_regs(ctx.guest_regs.gprs)
    IN  IF sbi_msg.ok /\ sbi_msg.tag = "Reset"
        THEN ResetArm(ctx, uspace)
        ELSE Outcome("false", "",
                     [ctx EXCEPT !.guest_regs.sepc = WAdd(@, 4)], uspace)

\* main.rs 91-110: Exception::VirtualSupervisorEnvCall
EnvCallArm(ctx, uspace) ==
    LET sbi_msg == from_regs(ctx.guest_regs.gprs)
    IN  IF sbi_msg.ok
        THEN IF sbi_msg.tag = "Reset"
             THEN ResetArm(ctx, uspace)
             ELSE Outcome("panic", "todo", ctx, uspace)
        ELSE Outcome("panic", "bad sbi message! ", ctx, uspace)

\* mutant of IllegalInstructionArm: the instruction is emulated by loading
\* a1 before it is skipped
IllegalInstructionArm_Emulates(ctx, uspace) ==
    Outcome("false", "",
            [ctx EXCEPT !.guest_regs.sepc = WAdd(@, 4),
                        !.guest_regs.gprs[A1] = SHUTDOWN_A1], uspace)

\* mutant of IllegalInstructionArm: the instruction is taken to be a
\* compressed one, two bytes wide
IllegalInstructionArm_Skips2(ctx, uspace) ==
    Outcome("false", "",
            [ctx EXCEPT !.guest_regs.sepc = WAdd(@, 2)], uspace)

\* main.rs 111-119: Exception::IllegalInstruction
IllegalInstructionArm(ctx, uspace) ==
    Outcome("false", "",
            [ctx EXCEPT !.guest_regs.sepc = WAdd(@, 4)], uspace)

\* mutant of LoadGuestPageFaultArm: the faulting load is emulated by
\* loading a0
LoadGuestPageFaultArm_Emulates(ctx, uspace, stval_, mappable, aborts) ==
    LET vaddr == stval_
        r == handle_page_fault(uspace, vaddr, RWX, mappable, aborts)
    IN  IF r.panic
        THEN Outcome("panic", "handle_page_fault", ctx, r.uspace)
        ELSE Outcome("false", "",
                     [ctx EXCEPT !.guest_regs.sepc = WAdd(@, 4),
                                 !.guest_regs.gprs[A0] = SHUTDOWN_A0],
                     r.uspace)

\* main.rs 120-137: Exception::LoadGuestPageFault.  The value that
\* handle_page_fault returns is dropped (main.rs 132-135): sepc is advanced
\* whether or not the mapping was established.
LoadGuestPageFaultArm(ctx, uspace, stval_, mappable, aborts) ==
    LET vaddr == stval_
        r == handle_page_fault(uspace, vaddr, RWX, mappable, aborts)
    IN  IF r.panic
        THEN Outcome("panic", "handle_page_fault", ctx, r.uspace)
        ELSE Outcome("false", "",
                     [ctx EXCEPT !.guest_regs.sepc = WAdd(@, 4)], r.uspace)

\* mutant of UnhandledArm: the trapping instruction is skipped
UnhandledArm_Skips(ctx, uspace) ==
    Outcome("false", "",
            [ctx EXCEPT !.guest_regs.sepc = WAdd(@, 4)], uspace)

\* main.rs 138-146: every other cause
UnhandledArm(ctx, uspace) == Outcome("false", "", ctx, uspace)

vmexit_handler(ctx, uspace, cause, stval_, mappable, aborts) ==
    CASE cause = "VirtualSupervisorEnvCall" -> EnvCallArm(ctx, uspace)
      [] cause = "IllegalInstruction" -> IllegalInstructionArm(ctx, uspace)
      [] cause = "LoadGuestPageFault" ->
            LoadGuestPageFaultArm(ctx, uspace, stval_, mappable, aborts)
      [] OTHER -> UnhandledArm(ctx, uspace)

\* ------------------------------------------------- prepare_guest_context
\* mutant of GuestHstatus: SPVP is not set
GuestHstatus_NoSpvp(hw) == WSetBit(hw, HSTATUS_SPV)

\* hstatus as prepare_guest_context computes it from the hardware value
GuestHstatus(hw) == WSetBit(WSetBit(hw, HSTATUS_SPV), HSTATUS_SPVP)

\* sstatus as prepare_guest_context computes it from the hardware value
GuestSstatus(hw) == WSetBit(hw, SSTATUS_SPP)

\* the context prepare_guest_context leaves in ctx
prepare_guest_context(ctx, hw_hstatus, hw_sstatus) ==
    [ctx EXCEPT !.guest_regs.hstatus = GuestHstatus(hw_hstatus),
                !.guest_regs.sstatus = GuestSstatus(hw_sstatus),
                !.guest_regs.sepc = VM_ENTRY]

\* mutant of CsrHstatusWrite: the CSR is written before SPVP is set
CsrHstatusWrite_Early(hw_hstatus) == WSetBit(hw_hstatus, HSTATUS_SPV)

\* the value prepare_guest_context writes to the hstatus CSR
CsrHstatusWrite(hw_hstatus) == GuestHstatus(hw_hstatus)

\* ---------------------------------------------------- prepare_vm_pgtable
\* 8usize << 60 | usize::from(ept_root) >> 12, as its two fields
HgatpValue(ept_root) == [mode |-> HGATP_MODE, ppn |-> WShr12(ept_root)]

\* ------------------------------------------------------------------ state
VARIABLES
    pc,           \* where main stands
    halt,         \* the panic message the process ended with, "" while alive
    ctx,          \* VmCpuRegisters: guest_regs and host_regs
    uspace,       \* the guest address space: root, mappings, repair calls
    csr_hstatus,  \* hardware hstatus
    csr_sstatus,  \* hardware sstatus
    csr_hgatp,    \* hardware hgatp: stage-2 mode and root page number
    csr_scause,   \* trap cause of the last exit
    csr_stval,    \* trap value of the last exit
    gtlb_stale,   \* stale stage-2 translations may be cached
    ret,          \* what the last vmexit_handler call returned
    log,          \* launch events, in the order they happened
    exits         \* the classified exits, in the order they happened

\* EarlyAllocator
VARIABLES
    ea,           \* the fields of the EarlyAllocator
    ea_pc,        \* "new" before init, "ready" after it, "panicked"
    ea_live,      \* the byte allocations handed out and not yet freed
    ea_pages,     \* the page ranges handed out
    ea_last       \* the last call and what it returned

\* HashMap
VARIABLES
    hm,           \* the fields of the HashMap
    hm_ref,       \* the key-value pairs a reference map would hold
    hm_last       \* the last call and what it returned

hvVars == <<pc, halt, ctx, uspace, csr_hstatus, csr_sstatus, csr_hgatp,
            csr_scause, csr_stval, gtlb_stale, ret, log, exits>>

allocVars == <<ea, ea_pc, ea_live, ea_pages, ea_last>>

mapVars == <<hm, hm_ref, hm_last>>

vars == <<pc, halt, ctx, uspace, csr_hstatus, csr_sstatus, csr_hgatp,
          csr_scause, csr_stval, gtlb_stale, ret, log, exits,
          allocVars, mapVars>>

\* ----------------------------------------------------------------- inputs
\* hardware hstatus / sstatus before the launch (VSXL = UXL = 2)
HwHstatus == {<<0, 0, 2, 0>>, <<448, 0, 2, 0>>}
HwSstatus == {<<2, 0, 2, 0>>, <<290, 0, 2, 32768>>}

\* page-table roots new_user_aspace may hand out: 0x8064_5000, 0x8123_4000
Roots == {<<20480, 32868, 0, 0>>, <<16384, 33059, 0, 0>>}

Causes == {"VirtualSupervisorEnvCall", "IllegalInstruction",
           "LoadGuestPageFault", "StoreGuestPageFault",
           "InstructionGuestPageFault", "VirtualInstruction",
           "SupervisorTimer"}

GuestPageFaults == {"LoadGuestPageFault", "StoreGuestPageFault",
                    "InstructionGuestPageFault"}

\* trap values: 0x40 and 0x1_0040
Stvals == {W(64), <<64, 1, 0, 0>>}

\* a0..a7 at the trap, as (a0, a1, a6, a7) with a2..a5 zero
ARegs(a0, a1, a6, a7) == <<a0, a1, W(0), W(0), W(0), W(0), a6, a7>>

\* the register files the guest may trap with: the reset call with the magic
\* pair, with a wrong a0 (0x1111), with a wrong a1 (0x4321), an unknown
\* function of the reset extension, and an unrecognised extension
GuestARegs ==
    {ARegs(SHUTDOWN_A0, SHUTDOWN_A1, FID_RESET, EXT_RESET),
     ARegs(W(4369), SHUTDOWN_A1, FID_RESET, EXT_RESET),
     ARegs(SHUTDOWN_A0, W(17185), FID_RESET, EXT_RESET),
     ARegs(SHUTDOWN_A0, SHUTDOWN_A1, W(1), EXT_RESET),
     ARegs(SHUTDOWN_A0, SHUTDOWN_A1, W(0), W(10))}

ZeroRegs == [gprs |-> [i \in 1..8 |-> W(0)], sepc |-> W(0),
             hstatus |-> W(0), sstatus |-> W(0)]

\* VmCpuRegisters::default()
DefaultCtx == [guest_regs |-> ZeroRegs,
               host_regs |-> [hstatus |-> W(0), sstatus |-> W(0)]]

NoSpace == [root |-> W(0), mapped |-> {}, repairs |-> <<>>]

\* number of calls of _run_guest so far
NSwitches == Cardinality({i \in 1..Len(log) : log[i] = "switch"})

\* the class of an exit, from the cause and the registers at the trap
Classify(cause, c) ==
    IF cause = "VirtualSupervisorEnvCall"
    THEN LET m == from_regs(c.guest_regs.gprs)
         IN  IF ~m.ok THEN "malformed"
             ELSE IF m.tag # "Reset" THEN "unsupported"
             ELSE IF m.code0 = SHUTDOWN_A0 /\ m.code1 = SHUTDOWN_A1
                  THEN "shutdown" ELSE "shutdown_mismatch"
    ELSE IF cause = "IllegalInstruction" THEN "illegal"
    ELSE IF cause = "LoadGuestPageFault" THEN "guest_page_fault"
    ELSE "unhandled"

\* EarlyAllocator::new(), bump_allocator lib.rs 33-46
NewAllocator == [start |-> W(0), end |-> W(0), b_pos |-> W(0),
                 p_pos |-> W(0), count |-> W(0), page_size |-> W(0)]

\* no allocator is in use
AllocIdle ==
    /\ ea = NewAllocator
    /\ ea_pc = "off"
    /\ ea_live = <<>>
    /\ ea_pages = {}
    /\ ea_last = [op |-> "none", res |-> "none", addr |-> W(0),
                  align |-> W(0)]

\* no map is in use
MapIdle ==
    /\ hm = [buckets |-> <<>>, len |-> 0, capacity |-> 0, seed |-> 0]
    /\ hm_ref = <<>>
    /\ hm_last = [op |-> "none", hang |-> FALSE, ret |-> 0]

\* no hypervisor is running
HvIdle ==
    /\ pc = "off"
    /\ halt = ""
    /\ ctx = DefaultCtx
    /\ uspace = NoSpace
    /\ csr_hstatus = W(0)
    /\ csr_sstatus = W(0)
    /\ csr_hgatp = [mode |-> 0, ppn |-> W(0)]
    /\ csr_scause = "none"
    /\ csr_stval = W(0)
    /\ gtlb_stale = TRUE
    /\ ret = "none"
    /\ log = <<>>
    /\ exits = <<>>

Init ==
    /\ AllocIdle
    /\ MapIdle
    /\ pc = "new_user_aspace"
    /\ halt = ""
    /\ ctx = DefaultCtx
    /\ uspace = NoSpace
    /\ csr_hstatus \in HwHstatus
    /\ csr_sstatus \in HwSstatus
    /\ csr_hgatp = [mode |-> 0, ppn |-> W(0)]
    /\ csr_scause = "none"
    /\ csr_stval = W(0)
    /\ gtlb_stale = TRUE
    /\ ret = "none"
    /\ log = <<>>
    /\ exits = <<>>

\* ---------------------------------------------------------------- actions
Panic(msg) == pc' = "halted" /\ halt' = msg

\* main.rs 40: axmm::new_user_aspace().unwrap()
NewUserAspace ==
    /\ pc = "new_user_aspace"
    /\ \E r \in Roots : uspace' = [NoSpace EXCEPT !.root = r]
    /\ pc' = "load_vm_image"
    /\ UNCHANGED <<allocVars, mapVars>>
    /\ UNCHANGED <<halt, ctx, csr_hstatus, csr_sstatus, csr_hgatp,
                   csr_scause, csr_stval, gtlb_stale, ret, log, exits>>

NewUserAspaceFails ==
    /\ pc = "new_user_aspace"
    /\ Panic("unwrap")
    /\ UNCHANGED <<allocVars, mapVars>>
    /\ UNCHANGED <<ctx, uspace, csr_hstatus, csr_sstatus, csr_hgatp,
                   csr_scause, csr_stval, gtlb_stale, ret, log, exits>>

\* main.rs 43-45: load_vm_image maps the image at VM_ENTRY
LoadVmImage ==
    /\ pc = "load_vm_image"
    /\ uspace' = [uspace EXCEPT !.mapped = @ \cup {<<PageOf(VM_ENTRY), RWX>>}]
    /\ pc' = "prepare_guest_context"
    /\ UNCHANGED <<allocVars, mapVars>>
    /\ UNCHANGED <<halt, ctx, csr_hstatus, csr_sstatus, csr_hgatp,
                   csr_scause, csr_stval, gtlb_stale, ret, log, exits>>

LoadVmImageFails ==
    /\ pc = "load_vm_image"
    /\ Panic("Cannot load app!")
    /\ UNCHANGED <<allocVars, mapVars>>
    /\ UNCHANGED <<ctx, uspace, csr_hstatus, csr_sstatus, csr_hgatp,
                   csr_scause, csr_stval, gtlb_stale, ret, log, exits>>

\* main.rs 48-49 and 151-168
PrepareGuestContext ==
    /\ pc = "prepare_guest_context"
    /\ ctx' = prepare_guest_context(DefaultCtx, csr_hstatus, csr_sstatus)
    /\ csr_hstatus' = CsrHstatusWrite(csr_hstatus)
    /\ log' = Append(log, "ctx")
    /\ pc' = "csrw_hgatp"
    /\ UNCHANGED <<allocVars, mapVars>>
    /\ UNCHANGED <<halt, uspace, csr_sstatus, csr_hgatp, csr_scause,
                   csr_stval, gtlb_stale, ret, exits>>

\* main.rs 52-53 and 62-67: csrw hgatp
CsrwHgatp ==
    /\ pc = "csrw_hgatp"
    /\ csr_hgatp' = HgatpValue(uspace.root)
    /\ gtlb_stale' = TRUE
    /\ log' = Append(log, "hgatp")
    /\ pc' = "hfence_gvma_all"
    /\ UNCHANGED <<allocVars, mapVars>>
    /\ UNCHANGED <<halt, ctx, uspace, csr_hstatus, csr_sstatus, csr_scause,
                   csr_stval, ret, exits>>

\* mutant of HfenceGvmaAll: the invalidation is left out
HfenceGvmaAll_Missing ==
    /\ pc = "hfence_gvma_all"
    /\ pc' = "run_guest"
    /\ UNCHANGED <<allocVars, mapVars>>
    /\ UNCHANGED <<halt, ctx, uspace, csr_hstatus, csr_sstatus, csr_hgatp,
                   csr_scause, csr_stval, gtlb_stale, ret, log, exits>>

\* main.rs 68: hfence_gvma_all()
HfenceGvmaAll ==
    /\ pc = "hfence_gvma_all"
    /\ gtlb_stale' = FALSE
    /\ log' = Append(log, "hfence")
    /\ pc' = "run_guest"
    /\ UNCHANGED <<allocVars, mapVars>>
    /\ UNCHANGED <<halt, ctx, uspace, csr_hstatus, csr_sstatus, csr_hgatp,
                   csr_scause, csr_stval, ret, exits>>

\* main.rs 72-75: _run_guest(ctx).  The host status registers are saved, the
\* guest runs from ctx.guest_regs until it traps, and the registers it had
\* at the trap are written back to ctx.guest_regs.
RunGuest ==
    /\ pc = "run_guest"
    /\ NSwitches < MaxSwitches
    /\ \E cause \in Causes, tval \in Stvals, aregs \in GuestARegs,
          adv \in {0, 4} :
          /\ ctx' = [ctx EXCEPT
                       !.host_regs = [hstatus |-> csr_hstatus,
                                      sstatus |-> csr_sstatus],
                       !.guest_regs.gprs = aregs,
                       !.guest_regs.sepc = WAdd(@, adv)]
          /\ csr_scause' = cause
          /\ csr_stval' = tval
    /\ log' = Append(log, "switch")
    /\ pc' = "vmexit_handler"
    /\ UNCHANGED <<allocVars, mapVars>>
    /\ UNCHANGED <<halt, uspace, csr_hstatus, csr_sstatus, csr_hgatp,
                   gtlb_stale, ret, exits>>

\* main.rs 56 and 77-149: vmexit_handler(ctx, uspace) and the loop test
VmExit ==
    /\ pc = "vmexit_handler"
    /\ \E mappable \in BOOLEAN, aborts \in BOOLEAN :
       LET o == vmexit_handler(ctx, uspace, csr_scause, csr_stval, mappable,
                               aborts)
       IN  /\ ret' = o.ret
           /\ ctx' = o.ctx
           /\ uspace' = o.uspace
           /\ halt' = o.panic
           /\ pc' = CASE o.ret = "true" -> "loop_exit"
                      [] o.ret = "false" -> "run_guest"
                      [] OTHER -> "halted"
    /\ exits' = Append(exits, Classify(csr_scause, ctx))
    /\ UNCHANGED <<allocVars, mapVars>>
    /\ UNCHANGED <<csr_hstatus, csr_sstatus, csr_hgatp, csr_scause,
                   csr_stval, gtlb_stale, log>>

\* mutant of LoopExit: main returns after the loop
LoopExit_Returns ==
    /\ pc = "loop_exit"
    /\ Panic("")
    /\ UNCHANGED <<allocVars, mapVars>>
    /\ UNCHANGED <<ctx, uspace, csr_hstatus, csr_sstatus, csr_hgatp,
                   csr_scause, csr_stval, gtlb_stale, ret, log, exits>>

\* main.rs 58: panic!("Hypervisor ok!")
LoopExit ==
    /\ pc = "loop_exit"
    /\ Panic("Hypervisor ok!")
    /\ UNCHANGED <<allocVars, mapVars>>
    /\ UNCHANGED <<ctx, uspace, csr_hstatus, csr_sstatus, csr_hgatp,
                   csr_scause, csr_stval, gtlb_stale, ret, log, exits>>

Next ==
    \/ NewUserAspace
    \/ NewUserAspaceFails
    \/ LoadVmImage
    \/ LoadVmImageFails
    \/ PrepareGuestContext
    \/ CsrwHgatp
    \/ HfenceGvmaAll
    \/ RunGuest
    \/ VmExit
    \/ LoopExit

Spec == Init /\ [][Next]_vars

\* ================================================================= claims
\* a step of the dispatcher: vmexit_handler runs on the exit at hand
Dispatch == pc = "vmexit_handler" /\ pc' # "vmexit_handler"

\* the exit at hand is the reset call with a0 = 0x6688 and a1 = 0x1234
ValidShutdownExit ==
    /\ csr_scause = "VirtualSupervisorEnvCall"
    /\ from_regs(ctx.guest_regs.gprs).tag = "Reset"
    /\ ctx.guest_regs.gprs[A0] = <<26248, 0, 0, 0>>
    /\ ctx.guest_regs.gprs[A1] = <<4660, 0, 0, 0>>

\* C1: the run loop ends (vmexit_handler returns true) exactly on a
\* hypervisor-call exit that decodes to the reset call with a0 = 0x6688 and
\* a1 = 0x1234; on an illegal-instruction, guest-page-fault or unhandled
\* exit the handler returns false and the loop goes on to the next switch.
C1_TerminatesIffShutdown ==
    [][Dispatch =>
         /\ (ret' = "true") <=> ValidShutdownExit
         /\ (pc' = "loop_exit") <=> ValidShutdownExit
         /\ csr_scause # "VirtualSupervisorEnvCall"
               => ret' = "false" /\ pc' = "run_guest" /\ halt' = ""]_vars

\* C1, amended: the run loop ends (vmexit_handler returns true) exactly on
\* the valid shutdown call; on an illegal-instruction exit and on an exit
\* that takes the default arm the handler returns false and the loop goes
\* on; on a load guest page fault it returns false and the loop goes on
\* whenever the repair returns, whether it established the mapping or
\* reported a failure, and the process aborts when the repair panics.
C1_TerminatesIffShutdownUnlessRepairFails ==
    [][Dispatch =>
         /\ (ret' = "true") <=> ValidShutdownExit
         /\ (pc' = "loop_exit") <=> ValidShutdownExit
         /\ csr_scause \notin {"VirtualSupervisorEnvCall",
                               "LoadGuestPageFault"}
               => ret' = "false" /\ pc' = "run_guest" /\ halt' = ""
         /\ csr_scause = "LoadGuestPageFault"
               => \/ /\ ret' = "false" /\ pc' = "run_guest" /\ halt' = ""
                     /\ \/ <<PageOf(csr_stval), RWX>> \in uspace'.mapped
                        \/ uspace'.mapped = uspace.mapped
                     /\ ctx'.guest_regs.sepc =
                           [ctx.guest_regs.sepc EXCEPT ![1] = @ + 4]
                  \/ /\ ret' = "panic" /\ pc' = "halted"
                     /\ halt' = "handle_page_fault"
                     /\ uspace'.mapped = uspace.mapped]_vars

\* the loop went on after an exit that is no call and then ended on the
\* valid shutdown call
C1_Witness ==
    /\ pc = "loop_exit" /\ ret = "true"
    /\ exits = <<"guest_page_fault", "shutdown">>

\* the exit at hand is the reset call with a payload other than the magic
MismatchedShutdownExit ==
    /\ csr_scause = "VirtualSupervisorEnvCall"
    /\ from_regs(ctx.guest_regs.gprs).tag = "Reset"
    /\ \/ ctx.guest_regs.gprs[A0] # <<26248, 0, 0, 0>>
       \/ ctx.guest_regs.gprs[A1] # <<4660, 0, 0, 0>>

\* C2: a shutdown call whose payload differs from (0x6688, 0x1234) in either
\* component aborts the process: the handler returns neither true nor
\* false, and the process stays dead.
C2_MismatchAborts ==
    [][/\ Dispatch /\ MismatchedShutdownExit
          => /\ ret' \notin {"true", "false"}
             /\ pc' = "halted"
             /\ halt' \in {"assert_eq a0", "assert_eq a1"}
       /\ halt \in {"assert_eq a0", "assert_eq a1"} => pc' = "halted"]_vars

\* the process aborted on the payload (0x6688, 0x4321), wrong second code
C2_Witness ==
    /\ pc = "halted" /\ halt = "assert_eq a1" /\ ret = "panic"
    /\ ctx.guest_regs.gprs[A0] = <<26248, 0, 0, 0>>
    /\ ctx.guest_regs.gprs[A1] = <<17185, 0, 0, 0>>

\* C3: on every guest page fault exit (load, store or instruction fetch)
\* the dispatcher asks the address space for a READ|WRITE|EXECUTE mapping
\* of the page of the trap value, advances sepc by 4 and returns false.
C3_EveryGuestPageFaultRepaired ==
    [][Dispatch /\ csr_scause \in GuestPageFaults
         => /\ uspace'.repairs = Append(uspace.repairs, csr_stval)
            /\ <<PageOf(csr_stval), {"READ", "WRITE", "EXECUTE"}>>
                  \in uspace'.mapped
            /\ ctx'.guest_regs.sepc =
                  [ctx.guest_regs.sepc EXCEPT ![1] = @ + 4]
            /\ ret' = "false"]_vars

\* C4: an illegal-instruction exit is skipped and nothing else: sepc grows
\* by exactly 4, every other field of the context, the address space and
\* the hardware registers are unchanged, and the handler returns false.
C4_IllegalInstructionSkipped ==
    [][Dispatch /\ csr_scause = "IllegalInstruction"
         => /\ ctx' = [ctx EXCEPT !.guest_regs.sepc = [@ EXCEPT ![1] = @ + 4]]
            /\ uspace' = uspace
            /\ UNCHANGED <<csr_hstatus, csr_sstatus, csr_hgatp, csr_scause,
                           csr_stval, gtlb_stale>>
            /\ ret' = "false" /\ pc' = "run_guest"]_vars

\* an illegal instruction at VM_ENTRY was skipped: the loop is about to
\* resume the guest at 0x8020_0004
C4_Witness ==
    /\ pc = "run_guest" /\ ret = "false"
    /\ exits = <<"illegal">>
    /\ ctx.guest_regs.sepc = <<4, 32800, 0, 0>>

\* the causes vmexit_handler has an arm for; every other cause, the store
\* and instruction guest page faults among them, takes the default arm
HandledCauses == {"VirtualSupervisorEnvCall", "IllegalInstruction",
                  "LoadGuestPageFault"}

\* C5: an exit with an unhandled cause leaves the guest context and the
\* address space as they are and returns false, so the loop re-enters the
\* guest with the context of the trap; as long as every exit so far had an
\* unhandled cause the process has neither left the loop nor aborted.
C5_UnhandledLeavesContext ==
    /\ [][Dispatch /\ csr_scause \notin HandledCauses
            => /\ ctx' = ctx /\ uspace' = uspace
               /\ ret' = "false" /\ pc' = "run_guest" /\ halt' = ""]_vars
    /\ []((exits # <<>> /\ \A i \in 1..Len(exits) : exits[i] = "unhandled")
            => pc \in {"run_guest", "vmexit_handler"} /\ halt = "")

\* the guest raised an unhandled cause at every switch the bound allows,
\* without running on in between, and the loop is ready for the next switch
C5_Witness ==
    /\ pc = "run_guest" /\ ret = "false"
    /\ Len(exits) >= 2
    /\ \A i \in 1..Len(exits) : exits[i] = "unhandled"
    /\ ctx.guest_regs.sepc = VM_ENTRY

\* C6: a hypervisor-call exit that does not decode to the reset call is
\* fatal: an unsupported call and a malformed call both abort the process,
\* the handler returns neither true nor false and no step follows the abort.
C6_OtherCallsFatal ==
    [][/\ Dispatch /\ csr_scause = "VirtualSupervisorEnvCall"
          /\ from_regs(ctx.guest_regs.gprs).tag # "Reset"
          => /\ ret' \notin {"true", "false"}
             /\ pc' = "halted"
             /\ halt' = IF from_regs(ctx.guest_regs.gprs).ok
                        THEN "todo" ELSE "bad sbi message! "
       /\ halt \in {"todo", "bad sbi message! "} => pc' = "halted"]_vars

\* the process aborted on a call to an unrecognised extension
C6_Witness ==
    /\ pc = "halted" /\ halt = "todo" /\ ret = "panic"
    /\ exits # <<>> /\ exits[Len(exits)] = "unsupported"

\* a step of prepare_guest_context
Prepare == pc = "prepare_guest_context" /\ pc' = "csrw_hgatp"

\* C7: whatever hstatus and sstatus held before, the context that
\* prepare_guest_context fills in resumes at the entry address VM_ENTRY
\* (0x8020_0000) with hstatus.SPV = Guest, hstatus.SPVP = Supervisor and
\* sstatus.SPP = Supervisor.
C7_PreparedContext ==
    [][Prepare
         => /\ ctx'.guest_regs.sepc = <<0, 32800, 0, 0>>
            /\ WBit(ctx'.guest_regs.hstatus, 7) = 1
            /\ WBit(ctx'.guest_regs.hstatus, 8) = 1
            /\ WBit(ctx'.guest_regs.sstatus, 8) = 1]_vars

\* the context was prepared on hardware whose hstatus had SPV and SPVP
\* clear and whose sstatus had SPP clear
C7_Witness ==
    /\ pc = "csrw_hgatp"
    /\ ctx.guest_regs.hstatus = <<384, 0, 2, 0>>
    /\ ctx.guest_regs.sstatus = <<258, 0, 2, 0>>
    /\ ctx.guest_regs.sepc = VM_ENTRY

\* C8 as stated: prepare_guest_context changes nothing but the context; the
\* hardware hstatus and sstatus hold the same values after it as before.
C8_HardwareRegistersUntouched ==
    [][Prepare => csr_hstatus' = csr_hstatus /\ csr_sstatus' = csr_sstatus]_vars

\* C8 amended: beyond the context, prepare_guest_context writes the hardware
\* hstatus, which then holds the value stored in the context: its prior
\* value with SPV and SPVP set and every other bit as before.  The hardware
\* sstatus, hgatp and the address space are unchanged.
C8_OnlyHstatusWritten ==
    [][Prepare
         => /\ csr_hstatus' = ctx'.guest_regs.hstatus
            /\ \A b \in (0..63) \ {7, 8} :
                  WBit(csr_hstatus', b) = WBit(csr_hstatus, b)
            /\ WBit(csr_hstatus', 7) = 1 /\ WBit(csr_hstatus', 8) = 1
            /\ csr_sstatus' = csr_sstatus
            /\ csr_hgatp' = csr_hgatp /\ uspace' = uspace]_vars

\* the hardware hstatus was changed by the preparation: SPV and SPVP are set
\* in the hardware register while the context is prepared and the guest has
\* not run yet
C8_Witness ==
    /\ pc = "csrw_hgatp"
    /\ csr_hstatus = <<384, 0, 2, 0>>
    /\ ctx.guest_regs.hstatus = <<384, 0, 2, 0>>
    /\ csr_sstatus = <<2, 0, 2, 0>>

\* number of times the event e is in the launch log
Count(e) == Cardinality({i \in 1..Len(log) : log[i] = e})

\* position of the first e in the launch log, 0 when there is none
First(e) ==
    IF \E i \in 1..Len(log) : log[i] = e
    THEN CHOOSE i \in 1..Len(log) :
            log[i] = e /\ \A j \in 1..(i - 1) : log[j] # e
    ELSE 0

\* C9: the stage-2 root is written and the stage-2 translation cache is
\* invalidated at most once each; once the guest has been switched to, both
\* happened exactly once, in that order, before the first switch, the guest
\* context was prepared before the first switch, and hgatp holds the root of
\* the guest address space with no stale translation cached.
C9_Stage2BeforeFirstSwitch ==
    /\ Count("hgatp") <= 1 /\ Count("hfence") <= 1 /\ Count("ctx") <= 1
    /\ Count("switch") >= 1
         => /\ Count("hgatp") = 1 /\ Count("hfence") = 1 /\ Count("ctx") = 1
            /\ First("hgatp") < First("hfence")
            /\ First("hfence") < First("switch")
            /\ First("ctx") < First("switch")
            /\ csr_hgatp.mode = 8
            /\ csr_hgatp.ppn = WShr12(uspace.root)
            /\ ~gtlb_stale

\* the guest has been switched to more than once
C9_Witness ==
    /\ Count("switch") >= 2
    /\ pc = "vmexit_handler"
    /\ csr_hgatp = [mode |-> 8, ppn |-> <<1605, 8, 0, 0>>]

\* C10 as stated: a guest whose only trap is the valid shutdown call makes
\* the host process exit normally, not by a panic, after one switch.
C10_ExitsNormally ==
    (exits = <<"shutdown">> /\ pc = "halted")
        => halt = "" /\ Count("switch") = 1

\* C10 amended: a guest whose only trap is the valid shutdown call makes the
\* run loop end after exactly one switch, and the host process then ends in
\* the panic "Hypervisor ok!" that closes main.
C10_OneSwitchThenFinalPanic ==
    /\ exits = <<"shutdown">>
         => /\ pc \in {"loop_exit", "halted"}
            /\ ret = "true"
            /\ Count("switch") = 1
    /\ (exits = <<"shutdown">> /\ pc = "halted") => halt = "Hypervisor ok!"

\* the guest trapped once, at VM_ENTRY, with the valid shutdown call, and
\* the process has ended
C10_Witness ==
    /\ exits = <<"shutdown">> /\ pc = "halted"
    /\ ctx.guest_regs.sepc = VM_ENTRY
    /\ halt = "Hypervisor ok!"

\* C11: a guest that executes one illegal instruction at its entry point
\* and then the valid shutdown call is switched to exactly twice before the
\* run loop ends, and the second switch starts from a context whose sepc is
\* VM_ENTRY + 4 (0x8020_0004).
C11_IllegalThenShutdown ==
    /\ [][/\ Dispatch /\ exits = <<>>
          /\ csr_scause = "IllegalInstruction"
          /\ ctx.guest_regs.sepc = <<0, 32800, 0, 0>>
          => /\ pc' = "run_guest" /\ Count("switch") = 1
             /\ ctx'.guest_regs.sepc = <<4, 32800, 0, 0>>]_vars
    /\ [](exits = <<"illegal", "shutdown">>
            => /\ Count("switch") = 2
               /\ pc \in {"loop_exit", "halted"}
               /\ ret = "true")

\* the illegal instruction at VM_ENTRY was skipped, the guest was resumed at
\* VM_ENTRY + 4, trapped there with the valid shutdown call, and the loop
\* ended
C11_Witness ==
    /\ exits = <<"illegal", "shutdown">>
    /\ pc = "loop_exit"
    /\ ctx.guest_regs.sepc = <<4, 32800, 0, 0>>
    /\ Count("switch") = 2

\* C12: when the guest touches one unmapped guest-physical page, by a load,
\* a store or an instruction fetch, and then issues the valid shutdown call,
\* handle_page_fault is called exactly once, with the touched address,
\* before the run loop ends.
C12_OneRepairPerTouchedPage ==
    [][/\ (Dispatch /\ exits = <<>> /\ csr_scause \in GuestPageFaults)
          => uspace'.repairs = <<csr_stval>>
       /\ (Dispatch /\ ValidShutdownExit)
          => uspace'.repairs = uspace.repairs /\ pc' = "loop_exit"]_vars

\* what the handler returns for the exit at hand when the host registers of
\* the context hold h
HandlerWithHost(h, mappable, aborts) ==
    vmexit_handler([ctx EXCEPT !.host_regs = h], uspace, csr_scause,
                   csr_stval, mappable, aborts)

\* C13: the dispatcher neither reads nor writes host_regs and writes no
\* guest general-purpose register: what it returns does not depend on
\* host_regs, the only field of the context it changes is sepc, and it
\* changes it only when the loop goes on to another switch.
C13_DispatcherTouchesOnlySepc ==
    /\ [][Dispatch
            => /\ ctx' = [ctx EXCEPT
                            !.guest_regs.sepc = ctx'.guest_regs.sepc]
               /\ ctx' # ctx => pc' = "run_guest"]_vars
    /\ [](pc = "vmexit_handler"
            => \A hs \in HwHstatus \cup {W(0)}, ss \in HwSstatus,
                  mappable \in BOOLEAN, aborts \in BOOLEAN :
                  LET h == [hstatus |-> hs, sstatus |-> ss]
                      o == HandlerWithHost(h, mappable, aborts)
                      o0 == HandlerWithHost(ctx.host_regs, mappable, aborts)
                  IN  /\ o.ctx.host_regs = h
                      /\ o = [o0 EXCEPT !.ctx.host_regs = h])

\* the dispatcher has advanced sepc on a load guest page fault taken with
\* a0 = 0x1111; the registers and host_regs are as the
\* switch left them
C13_Witness ==
    /\ exits = <<"guest_page_fault">> /\ pc = "run_guest"
    /\ Len(uspace.repairs) = 1
    /\ ctx.guest_regs.sepc = <<4, 32800, 0, 0>>
    /\ ctx.guest_regs.gprs[A0] = <<4369, 0, 0, 0>>
    /\ ctx.host_regs = [hstatus |-> csr_hstatus, sstatus |-> csr_sstatus]

\* =========================================================================
\* EarlyAllocator, arceos/modules/bump_allocator/src/lib.rs
\* =========================================================================
\* the generic parameter PAGE_SIZE, instantiated with four bytes
PAGE_SIZE == 4

\* ------------------------------------------- usize arithmetic, wrapping
\* a + b on usize, wrapping at 2^64
WPlus(a, b) ==
    LET s1 == a[1] + b[1]
        s2 == a[2] + b[2] + (s1 \div Limb)
        s3 == a[3] + b[3] + (s2 \div Limb)
        s4 == a[4] + b[4] + (s3 \div Limb)
    IN  <<s1 % Limb, s2 % Limb, s3 % Limb, s4 % Limb>>

\* a < b and a <= b on usize
WLt(a, b) ==
    \/ a[4] < b[4]
    \/ a[4] = b[4] /\ a[3] < b[3]
    \/ a[4] = b[4] /\ a[3] = b[3] /\ a[2] < b[2]
    \/ a[4] = b[4] /\ a[3] = b[3] /\ a[2] = b[2] /\ a[1] < b[1]
WLe(a, b) == ~WLt(b, a)

\* a + b does not fit a usize: the wrapped sum is below an operand
WPlusOverflows(a, b) == WLt(WPlus(a, b), a)

\* !a
WNot(a) == <<Limb - 1 - a[1], Limb - 1 - a[2], Limb - 1 - a[3],
             Limb - 1 - a[4]>>

\* a - b on usize, wrapping below zero
WMinus(a, b) == WPlus(WPlus(a, WNot(b)), W(1))

RECURSIVE BitAnd(_, _)
\* x & y on one limb
BitAnd(x, y) ==
    IF x = 0 \/ y = 0 THEN 0
    ELSE IF x = Limb - 1 THEN y
    ELSE IF y = Limb - 1 THEN x
    ELSE (x % 2) * (y % 2) + 2 * BitAnd(x \div 2, y \div 2)

\* a & b
WAnd(a, b) == <<BitAnd(a[1], b[1]), BitAnd(a[2], b[2]),
                BitAnd(a[3], b[3]), BitAnd(a[4], b[4])>>

\* a * k on usize for 0 < k < 2^14, wrapping at 2^64
WTimes(a, k) ==
    LET s1 == a[1] * k
        s2 == a[2] * k + (s1 \div Limb)
        s3 == a[3] * k + (s2 \div Limb)
        s4 == a[4] * k + (s3 \div Limb)
    IN  <<s1 % Limb, s2 % Limb, s3 % Limb, s4 % Limb>>

\* a / k and a % k on usize for 0 < k < 2^14
WDiv(a, k) ==
    LET r4 == a[4] % k
        t3 == r4 * Limb + a[3]
        t2 == (t3 % k) * Limb + a[2]
        t1 == (t2 % k) * Limb + a[1]
    IN  <<t1 \div k, t2 \div k, t3 \div k, a[4] \div k>>
WMod(a, k) ==
    LET r4 == a[4] % k
        r3 == (r4 * Limb + a[3]) % k
        r2 == (r3 * Limb + a[2]) % k
    IN  (r2 * Limb + a[1]) % k

\* w - 1 on a usize word, wrapping at zero
WDec(w) == WMinus(w, W(1))

\* ------------------------------------------------------------ the methods
\* lib.rs 160-162, every operation wrapping as in a build without overflow
\* checks
align_up(addr, align) ==
    WAnd(WMinus(WPlus(addr, align), W(1)), WNot(WMinus(align, W(1))))

\* lib.rs 164-166, align - 1 wrapping
align_down(addr, align) == WAnd(addr, WNot(WMinus(align, W(1))))

\* lib.rs 48-51, the sum wrapping
can_alloc_bytes(a, size, align) ==
    LET aligned_pos == align_up(a.b_pos, align)
    IN  WLe(WPlus(aligned_pos, size), a.p_pos)

\* an addition or subtraction of alloc (lib.rs 49-50, 161) leaves the range
\* of usize: a build with overflow checks panics there, before any field is
\* assigned
AllocOverflows(a, size, align) ==
    \/ WPlusOverflows(a.b_pos, align)
    \/ WPlus(a.b_pos, align) = W(0)
    \/ align = W(0)
    \/ WPlusOverflows(align_up(a.b_pos, align), size)

\* lib.rs 55-62
init(a, start, size) ==
    [a EXCEPT !.start = start, !.end = WPlus(start, size), !.b_pos = start,
              !.p_pos = WPlus(start, size), !.count = W(0),
              !.page_size = W(PAGE_SIZE)]

\* lib.rs 71-94 in a build without overflow checks: the result, the address
\* returned and the allocator after.  NonNull::new(aligned_pos).unwrap()
\* panics on the address 0, after b_pos and count were assigned.
alloc(a, size, align) ==
    IF ~can_alloc_bytes(a, size, align)
    THEN [res |-> "NoMemory", addr |-> W(0), ea |-> a]
    ELSE LET aligned_pos == align_up(a.b_pos, align)
         IN  IF WLt(a.p_pos, WPlus(aligned_pos, size))
             THEN [res |-> "NoMemory", addr |-> W(0), ea |-> a]
             ELSE [res |-> IF aligned_pos = W(0) THEN "panic" ELSE "Ok",
                   addr |-> aligned_pos,
                   ea |-> [a EXCEPT !.b_pos = WPlus(aligned_pos, size),
                                    !.count = WAdd(@, 1)]]

\* lib.rs 96-102, release build: count -= 1 wraps at zero
dealloc(a) ==
    LET c == WDec(a.count)
    IN  IF c = W(0)
        THEN [a EXCEPT !.count = c, !.b_pos = a.start]
        ELSE [a EXCEPT !.count = c]

\* lib.rs 104-114, the subtractions wrapping
total_bytes(a) == WMinus(a.end, a.start)
used_bytes(a) == WMinus(a.b_pos, a.start)
available_bytes(a) == WMinus(a.p_pos, a.b_pos)

\* lib.rs 120-143, with num_pages * PAGE_SIZE and align_pow2 - 1 wrapping as
\* in a build without overflow checks
alloc_pages(a, num_pages, align_pow2) ==
    IF WMod(align_pow2, PAGE_SIZE) # 0
    THEN [res |-> "InvalidParam", addr |-> W(0), ea |-> a]
    ELSE LET size == WTimes(num_pages, PAGE_SIZE)
         IN  IF WLt(a.p_pos, size)
             THEN [res |-> "NoMemory", addr |-> W(0), ea |-> a]
             ELSE LET aligned_pos ==
                          align_down(WMinus(a.p_pos, size), align_pow2)
                  IN  IF WLt(aligned_pos, a.b_pos)
                      THEN [res |-> "NoMemory", addr |-> W(0), ea |-> a]
                      ELSE [res |-> "Ok", addr |-> aligned_pos,
                            ea |-> [a EXCEPT !.p_pos = aligned_pos]]

\* mutant of dealloc_pages: pages at the front of the pages area are
\* given back
dealloc_pages_GivesBack(a, pos, num_pages) ==
    IF pos = a.p_pos /\ WLe(WPlus(pos, WTimes(num_pages, PAGE_SIZE)), a.end)
    THEN [a EXCEPT !.p_pos = WPlus(pos, WTimes(num_pages, PAGE_SIZE))]
    ELSE a

\* lib.rs 145
dealloc_pages(a, pos, num_pages) == a

\* lib.rs 147-157
total_pages(a) == WDiv(WMinus(a.end, a.start), PAGE_SIZE)
used_pages(a) == WDiv(WMinus(a.end, a.p_pos), PAGE_SIZE)
available_pages(a) == WDiv(WMinus(a.p_pos, a.b_pos), PAGE_SIZE)

\* ----------------------------------------------------------------- inputs
\* regions given to init: at address 0, two bytes off a page boundary, and
\* at the page boundary 0xffff_ffc0_8000_0000 in the upper half of the
\* address space
InitStarts == {W(0), W(PAGE_SIZE + 2), <<0, 32768, 65472, 65535>>}
InitSize == W(MemPages * PAGE_SIZE)

\* Layout sizes, 0x40_0000_0000 among them, and alignments
LayoutSizes == {W(0), W(3), <<0, 0, 64, 0>>}
LayoutAligns == {W(1), W(4)}

\* alloc_pages arguments; an alignment of half a page is no multiple of
\* PAGE_SIZE, an alignment of zero is handled by EaAllocPagesZeroAlign
PageCounts == {W(0), W(1), W(2)}
PageAligns == {W(0), W(PAGE_SIZE \div 2), W(PAGE_SIZE), W(2 * PAGE_SIZE)}

\* a call, its result, and for a successful alloc or alloc_pages the
\* address returned and the alignment asked for
Last(op, res, addr) ==
    [op |-> op, res |-> res, addr |-> addr, align |-> W(0)]

\* the sequence q without its i-th element
RemoveAt(q, i) == SubSeq(q, 1, i - 1) \o SubSeq(q, i + 1, Len(q))

InitAlloc ==
    /\ HvIdle
    /\ MapIdle
    /\ ea = NewAllocator
    /\ ea_pc = "new"
    /\ ea_live = <<>>
    /\ ea_pages = {}
    /\ ea_last = Last("new", "unit", W(0))

\* ---------------------------------------------------------------- actions
EaInit ==
    /\ ea_pc = "new"
    /\ \E start \in InitStarts : ea' = init(ea, start, InitSize)
    /\ ea_pc' = "ready"
    /\ ea_last' = Last("init", "unit", W(0))
    /\ UNCHANGED <<ea_live, ea_pages, hvVars, mapVars>>

\* lib.rs 65-67
EaAddMemory ==
    /\ ea_pc = "ready"
    /\ ea_last' = Last("add_memory", "NoMemory", W(0))
    /\ UNCHANGED <<ea, ea_pc, ea_live, ea_pages, hvVars, mapVars>>

\* alloc returns, or panics on the address 0 (lib.rs 93); where a sum
\* leaves the range of usize a build with overflow checks panics before it
\* assigns anything and a build without goes on with the wrapped sum.  The
\* allocator is followed up to an alloc that succeeds on a wrapped sum:
\* "wrapped" is the state that call returns in.
EaAlloc ==
    /\ ea_pc = "ready"
    /\ Len(ea_live) < MaxLive
    /\ \E size \in LayoutSizes, align \in LayoutAligns :
          \/ /\ AllocOverflows(ea, size, align)
             /\ ea_pc' = "panicked"
             /\ ea_last' = Last("alloc", "panic", W(0))
             /\ UNCHANGED <<ea, ea_live>>
          \/ LET r == alloc(ea, size, align)
             IN  /\ ea' = r.ea
                 /\ ea_last' = IF r.res = "Ok"
                               THEN [op |-> "alloc", res |-> "Ok",
                                     addr |-> r.addr, align |-> align]
                               ELSE Last("alloc", r.res, W(0))
                 /\ ea_live' = IF r.res = "Ok"
                               THEN Append(ea_live, [addr |-> r.addr,
                                                     size |-> size])
                               ELSE ea_live
                 /\ ea_pc' = IF r.res = "panic" THEN "panicked"
                             ELSE IF r.res = "Ok"
                                     /\ AllocOverflows(ea, size, align)
                             THEN "wrapped"
                             ELSE ea_pc
    /\ UNCHANGED <<ea_pages, hvVars, mapVars>>

\* dealloc of an allocation that is live
EaDealloc ==
    /\ ea_pc = "ready"
    /\ \E i \in 1..Len(ea_live) :
          /\ ea' = dealloc(ea)
          /\ ea_live' = RemoveAt(ea_live, i)
          /\ ea_last' = Last("dealloc", "unit", W(0))
    /\ UNCHANGED <<ea_pc, ea_pages, hvVars, mapVars>>

EaAllocPages ==
    /\ ea_pc = "ready"
    /\ \E num_pages \in PageCounts, align_pow2 \in PageAligns \ {W(0)} :
          LET r == alloc_pages(ea, num_pages, align_pow2)
          IN  /\ ea' = r.ea
              /\ ea_last' = Last("alloc_pages", r.res, r.addr)
              /\ ea_pages' = IF r.res = "Ok" /\ num_pages # W(0)
                             THEN ea_pages \cup
                                    {[addr |-> r.addr,
                                      size |-> WTimes(num_pages,
                                                      PAGE_SIZE)]}
                             ELSE ea_pages
    /\ UNCHANGED <<ea_pc, ea_live, hvVars, mapVars>>

\* alloc_pages with align_pow2 = 0: align_pow2 - 1 overflows, which is a
\* panic in a build with overflow checks and wraps in a build without
EaAllocPagesZeroAlign ==
    /\ ea_pc = "ready"
    /\ \E num_pages \in PageCounts :
          \/ /\ WLe(WTimes(num_pages, PAGE_SIZE), ea.p_pos)
             /\ ea_pc' = "panicked"
             /\ ea_last' = Last("alloc_pages", "panic", W(0))
             /\ UNCHANGED <<ea, ea_pages>>
          \/ LET r == alloc_pages(ea, num_pages, W(0))
             IN  /\ ea' = r.ea
                 /\ ea_last' = Last("alloc_pages", r.res, r.addr)
                 /\ ea_pages' = IF r.res = "Ok" /\ num_pages # W(0)
                                THEN ea_pages \cup
                                       {[addr |-> r.addr,
                                         size |-> WTimes(num_pages,
                                                         PAGE_SIZE)]}
                                ELSE ea_pages
                 /\ UNCHANGED ea_pc
    /\ UNCHANGED <<ea_live, hvVars, mapVars>>

EaDeallocPages ==
    /\ ea_pc = "ready"
    /\ \E r \in ea_pages :
          /\ ea' = dealloc_pages(ea, r.addr, WDiv(r.size, PAGE_SIZE))
          /\ ea_last' = Last("dealloc_pages", "unit", W(0))
    /\ UNCHANGED <<ea_pc, ea_live, ea_pages, hvVars, mapVars>>

\* dealloc while count is zero: count -= 1 overflows, which is a panic in a
\* build with overflow checks and wraps in a build without.  The allocator
\* is followed up to this call: "misused" is the state dealloc returns in.
EaDeallocAtZero ==
    /\ ea_pc = "ready"
    /\ ea.count = W(0)
    /\ \/ /\ ea_pc' = "panicked"
          /\ ea_last' = Last("dealloc", "panic", W(0))
          /\ UNCHANGED ea
       \/ /\ ea' = dealloc(ea)
          /\ ea_last' = Last("dealloc", "unit", W(0))
          /\ ea_pc' = "misused"
    /\ UNCHANGED <<ea_live, ea_pages, hvVars, mapVars>>

NextAlloc ==
    \/ EaInit
    \/ EaAddMemory
    \/ EaAlloc
    \/ EaDealloc
    \/ EaAllocPages
    \/ EaAllocPagesZeroAlign
    \/ EaDeallocPages

\* the callers free only what is live
SpecAlloc == InitAlloc /\ [][NextAlloc]_vars

NextAllocMisuse ==
    \/ EaInit
    \/ EaAddMemory
    \/ EaAlloc
    \/ EaDealloc
    \/ EaAllocPages
    \/ EaAllocPagesZeroAlign
    \/ EaDeallocPages
    \/ EaDeallocAtZero

\* the callers may also call dealloc while nothing is allocated
SpecAllocMisuse == InitAlloc /\ [][NextAllocMisuse]_vars

\* ---------------------------------------------------------------------------
\* Claims about EarlyAllocator

\* C14: after init and any sequence of alloc, dealloc of live allocations,
\* alloc_pages, dealloc_pages and add_memory, start <= b_pos <= p_pos <= end,
\* and used_bytes() + available_bytes() + (end - p_pos) = total_bytes().
C14_DoubleEndedLayout ==
    ea_pc \in {"ready", "wrapped"} =>
        /\ WLe(ea.start, ea.b_pos)
        /\ WLe(ea.b_pos, ea.p_pos)
        /\ WLe(ea.p_pos, ea.end)
        /\ WPlus(WPlus(used_bytes(ea), available_bytes(ea)),
                 WMinus(ea.end, ea.p_pos)) = total_bytes(ea)

\* the range [r.addr, r.addr + r.size) ends above the address a
EndsAbove(r, a) ==
    WPlusOverflows(r.addr, r.size) \/ WLt(a, WPlus(r.addr, r.size))

\* two ranges [addr, addr + size) share a byte
Overlaps(x, y) ==
    /\ x.size # W(0)
    /\ y.size # W(0)
    /\ EndsAbove(y, x.addr)
    /\ EndsAbove(x, y.addr)

\* a step in which alloc succeeded
AllocOk == Len(ea_live') = Len(ea_live) + 1

\* C15: every successful alloc(layout) returns a multiple of layout.align()
\* (a power of two), at or above the previous b_pos, whose range lies inside
\* [start, p_pos) and overlaps neither a live byte allocation nor a page
\* range handed out.
C15_AllocForward ==
    [][AllocOk =>
         LET new == ea_live'[Len(ea_live')]
         IN  /\ ea_last'.op = "alloc"
             /\ ea_last'.res = "Ok"
             /\ ea_last'.addr = new.addr
             /\ WAnd(new.addr, WMinus(ea_last'.align, W(1))) = W(0)
             /\ WLe(ea.b_pos, new.addr)
             /\ WLe(ea.start, new.addr)
             /\ ~EndsAbove(new, ea.p_pos)
             /\ \A i \in 1..Len(ea_live) : ~Overlaps(new, ea_live[i])
             /\ \A r \in ea_pages : ~Overlaps(new, r)]_vars

\* a step in which a live byte allocation was freed
DeallocLive == Len(ea_live') = Len(ea_live) - 1

\* C16: count equals the number of live byte allocations; dealloc leaves
\* b_pos unchanged while count stays above zero and frees the whole
\* bytes-used area exactly when count reaches zero; a dealloc issued when
\* count is already zero does not wrap count around.
C16_CountIsLiveAllocations ==
    /\ [](ea_pc \in {"ready", "misused"} => ea.count = W(Len(ea_live)))
    /\ [][DeallocLive =>
            IF Len(ea_live') > 0
            THEN ea'.b_pos = ea.b_pos
            ELSE ea'.b_pos = ea.start /\ used_bytes(ea') = W(0)]_vars

\* C17: dealloc_pages leaves every field unchanged, byte dealloc never
\* changes p_pos, and after init p_pos never increases, so used_pages()
\* never decreases.
C17_PagesNeverFreed ==
    [][/\ EaDeallocPages => ea' = ea
       /\ DeallocLive => ea'.p_pos = ea.p_pos
       /\ ea_pc = "ready" =>
             /\ WLe(ea'.p_pos, ea.p_pos)
             /\ WLe(used_pages(ea), used_pages(ea'))]_vars

\* the last live byte allocation was freed, which reset b_pos, while pages
\* are in use
C17_Witness ==
    /\ ea_pc = "ready"
    /\ ea_last.op = "dealloc"
    /\ Len(ea_live) = 0
    /\ ea.b_pos = ea.start
    /\ used_pages(ea) # W(0)
    /\ ea_pages # {}

\* ===========================================================================
\* HashMap of axstd collections (src/arceos/ulib/axstd/src/lib.rs)

\* lib.rs 87
INITIAL_CAPACITY == 8

\* lib.rs 90-94.  A key is a sequence of bytes, a value a positive number.
Empty == [tag |-> "Empty", k |-> <<>>, v |-> 0]
Tombstone == [tag |-> "Tombstone", k |-> <<>>, v |-> 0]
Occupied(k, v) == [tag |-> "Occupied", k |-> k, v |-> v]

\* lib.rs 108-121, with the value gen_seed() returned.  buckets[i + 1] is
\* the bucket at index i.
new(seed) ==
    [buckets |-> [i \in 1..INITIAL_CAPACITY |-> Empty],
     len |-> 0, capacity |-> INITIAL_CAPACITY, seed |-> seed]

RECURSIVE HashBytes(_, _)
\* lib.rs 131-133: hash = hash.wrapping_mul(31).wrapping_add(byte), on the
\* low 16 bits of the word; capacity is a power of two below 2^16, so
\* the higher bits do not reach hash % capacity
HashBytes(h, bytes) ==
    IF bytes = <<>> THEN h
    ELSE HashBytes((h * 31 + Head(bytes)) % Limb, Tail(bytes))

\* lib.rs 127-136
hash(m, key) == HashBytes(m.seed % Limb, key) % m.capacity

\* lib.rs 139: len / capacity >= 0.7 in f64; capacity is a power of two, so
\* the quotient is exact and never lies between the f64 0.7 and 7/10
LoadFactorReached(m) == 10 * m.len >= 7 * m.capacity

\* Option<V>: None is 0, Some(v) is v
None == 0

\* what a call does: it returns val and leaves the map m, or it never
\* returns
Returns(val, m) == [hang |-> FALSE, ret |-> val, hm |-> m]
Hangs(m) == [hang |-> TRUE, ret |-> None, hm |-> m]

RECURSIVE InsertProbe(_, _, _, _, _, _)
\* lib.rs 147-174, the probe loop of insert; first_tombstone is -1 for None.
\* After capacity iterations without a return the loop sees the same
\* buckets again and never returns.
InsertProbe(m, key, value, index, first_tombstone, steps) ==
    IF steps = m.capacity THEN Hangs(m)
    ELSE LET b == m.buckets[index + 1]
             next == (index + 1) % m.capacity
         IN  IF b.tag = "Occupied" /\ b.k = key
             THEN Returns(b.v, [m EXCEPT !.buckets[index + 1] =
                                             Occupied(key, value)])
             ELSE IF b.tag = "Tombstone" /\ first_tombstone = -1
             THEN InsertProbe(m, key, value, next, index, steps + 1)
             ELSE IF b.tag = "Empty"
             THEN LET insert_pos == IF first_tombstone = -1
                                    THEN index ELSE first_tombstone
                  IN  Returns(None,
                              [m EXCEPT !.buckets[insert_pos + 1] =
                                            Occupied(key, value),
                                        !.len = @ + 1])
             ELSE InsertProbe(m, key, value, next, first_tombstone,
                              steps + 1)

RECURSIVE insert(_, _, _, _)
RECURSIVE resize(_, _)
RECURSIVE Reinsert(_, _, _, _)

\* lib.rs 222-226: the occupied buckets, from index i - 1 on, are inserted
\* into new_map
Reinsert(new_map, buckets, i, seed) ==
    IF i > Len(buckets) THEN new_map
    ELSE IF buckets[i].tag = "Occupied"
    THEN Reinsert(insert(new_map, buckets[i].k, buckets[i].v, seed).hm,
                  buckets, i + 1, seed)
    ELSE Reinsert(new_map, buckets, i + 1, seed)

\* lib.rs 209-229, with the value random() returned
resize(m, seed) ==
    LET new_capacity == m.capacity * 2
        new_map == [buckets |-> [i \in 1..new_capacity |-> Empty],
                    len |-> 0, capacity |-> new_capacity, seed |-> seed]
    IN  Reinsert(new_map, m.buckets, 1, seed)

\* lib.rs 138-175; seed is what random() returns if the table is resized
insert(m, key, value, seed) ==
    LET m1 == IF LoadFactorReached(m) THEN resize(m, seed) ELSE m
    IN  InsertProbe(m1, key, value, hash(m1, key), -1, 0)

RECURSIVE GetProbe(_, _, _, _)
\* lib.rs 180-187
GetProbe(m, key, index, steps) ==
    IF steps = m.capacity THEN Hangs(m)
    ELSE LET b == m.buckets[index + 1]
         IN  IF b.tag = "Empty" THEN Returns(None, m)
             ELSE IF b.tag = "Occupied" /\ b.k = key THEN Returns(b.v, m)
             ELSE GetProbe(m, key, (index + 1) % m.capacity, steps + 1)

\* lib.rs 177-188
get(m, key) == GetProbe(m, key, hash(m, key), 0)

RECURSIVE RemoveProbe(_, _, _, _)
\* lib.rs 193-206
RemoveProbe(m, key, index, steps) ==
    IF steps = m.capacity THEN Hangs(m)
    ELSE LET b == m.buckets[index + 1]
         IN  IF b.tag = "Occupied" /\ b.k = key
             THEN Returns(b.v, [m EXCEPT !.buckets[index + 1] = Tombstone,
                                         !.len = @ - 1])
             ELSE IF b.tag = "Empty" THEN Returns(None, m)
             ELSE RemoveProbe(m, key, (index + 1) % m.capacity, steps + 1)

\* lib.rs 190-207
remove(m, key) == RemoveProbe(m, key, hash(m, key), 0)

RECURSIVE IterFrom(_, _)
\* lib.rs 245-253: the pairs next() yields from bucket i - 1 on
IterFrom(m, i) ==
    IF i > Len(m.buckets) THEN <<>>
    ELSE IF m.buckets[i].tag = "Occupied"
    THEN <<[k |-> m.buckets[i].k, v |-> m.buckets[i].v]>>
           \o IterFrom(m, i + 1)
    ELSE IterFrom(m, i + 1)

\* lib.rs 231-235: everything the iterator yields
iter(m) == IterFrom(m, 1)

\* ----------------------------------------------------------------- inputs
\* one-byte keys; <<6>> and <<14>> have the same hash while capacity is 8
Keys == {<<b>> : b \in {0, 1, 2, 3, 4, 5, 6, 14}}
Values == {1}
\* what random() may return
Seeds == {0, 5}

MapLast(op, r) == [op |-> op, hang |-> r.hang, ret |-> r.ret]

\* the map exists and no call on it is stuck
MapReady == hm.capacity > 0 /\ ~hm_last.hang

InitMap ==
    /\ HvIdle
    /\ AllocIdle
    /\ \E seed \in Seeds : hm = new(seed)
    /\ hm_ref = [k \in Keys |-> None]
    /\ hm_last = [op |-> "new", hang |-> FALSE, ret |-> None]

\* ---------------------------------------------------------------- actions
HmInsert ==
    /\ MapReady
    /\ \E key \in Keys, value \in Values, seed \in Seeds :
          LET r == insert(hm, key, value, seed)
          IN  /\ hm' = r.hm
              /\ hm_last' = MapLast("insert", r)
              /\ hm_ref' = IF r.hang THEN hm_ref
                           ELSE [hm_ref EXCEPT ![key] = value]
    /\ UNCHANGED <<hvVars, allocVars>>

HmGet ==
    /\ MapReady
    /\ \E key \in Keys :
          LET r == get(hm, key)
          IN  /\ hm' = r.hm
              /\ hm_last' = MapLast("get", r)
    /\ UNCHANGED <<hm_ref, hvVars, allocVars>>

HmRemove ==
    /\ MapReady
    /\ \E key \in Keys :
          LET r == remove(hm, key)
          IN  /\ hm' = r.hm
              /\ hm_last' = MapLast("remove", r)
              /\ hm_ref' = IF r.hang THEN hm_ref
                           ELSE [hm_ref EXCEPT ![key] = None]
    /\ UNCHANGED <<hvVars, allocVars>>

\* iter() and next() until it returns None; ret is the number of pairs
HmIter ==
    /\ MapReady
    /\ hm_last' = [op |-> "iter", hang |-> FALSE, ret |-> Len(iter(hm))]
    /\ UNCHANGED <<hm, hm_ref, hvVars, allocVars>>

NextMap ==
    \/ HmInsert
    \/ HmGet
    \/ HmRemove
    \/ HmIter

SpecMap == InitMap /\ [][NextMap]_vars

\* ---------------------------------------------------------------------------
\* Claims about HashMap

\* C18: after any sequence of inserts and removes every call of insert, get
\* and remove terminates: the table always contains at least one Empty
\* bucket.
C18_ProbesTerminate ==
    hm.capacity > 0 =>
        /\ ~hm_last.hang
        /\ \E i \in 1..Len(hm.buckets) : hm.buckets[i].tag = "Empty"

\* the pairs of the reference map
RefPairs == {[k |-> key, v |-> hm_ref[key]] : key \in {x \in Keys : hm_ref[x] # None}}

\* C19: the map behaves like a reference key-value map: insert(k, v)
\* returns the previous value of k or None, get(k) the value of the latest
\* insert of k not followed by remove(k) and None otherwise, remove(k) the
\* current value of k or None, and iter yields exactly the current pairs,
\* each once.
C19_RefinesReferenceMap ==
    hm.capacity > 0 =>
        /\ ~hm_last.hang
        /\ \A key \in Keys :
              /\ get(hm, key) = Returns(hm_ref[key], hm)
              /\ LET r == remove(hm, key)
                 IN  ~r.hang /\ r.ret = hm_ref[key]
              /\ \A value \in Values, seed \in Seeds :
                    LET r == insert(hm, key, value, seed)
                    IN  ~r.hang /\ r.ret = hm_ref[key]
        /\ {iter(hm)[i] : i \in 1..Len(iter(hm))} = RefPairs
        /\ Len(iter(hm)) = Cardinality(RefPairs)

====
